---------------------------- MODULE Spec2Model ----------------------------
(***************************************************************************)
(* A model of natalie's BignumObject (include/natalie/bignum_object.hpp)   *)
(* and of the program entry point (src/main.cpp): main, _main and EVAL.    *)
(*                                                                         *)
(* The program body (NAT_EVAL_BODY) is modelled as a client of             *)
(* BignumObject: it constructs objects, queries them, does arithmetic on   *)
(* them and drops references, while the collector reclaims unreachable     *)
(* objects.  BigInt (natalie/big_int.hpp) is the arbitrary-precision       *)
(* kernel: a BigInt is a cell holding a mathematical integer.              *)
(***************************************************************************)
EXTENDS Integers, Sequences, FiniteSets, TLC

(***************************************************************************)
(* Bounds of the model.                                                    *)
(***************************************************************************)
\* nat_int_t is modelled as a signed word of WordBits bits.
WordBits == 5
\* BignumObject storage slots the heap may hand out in one run.
MaxObjs == 3
\* BignumObjects the program body constructs itself in one run.
MaxBuilt == 2

RECURSIVE Pow2(_)
Pow2(n) == IF n = 0 THEN 1 ELSE 2 * Pow2(n - 1)

NAT_INT_MAX == Pow2(WordBits - 1) - 1
NAT_INT_MIN == -Pow2(WordBits - 1)

\* static inline const BigInt MAX_INT = NAT_INT_MAX, MIN_INT = NAT_INT_MIN
MAX_INT == NAT_INT_MAX
MIN_INT == NAT_INT_MIN

\* The heap has room for one BigInt for each object.
MaxCells == MaxObjs
ObjIds == 1..MaxObjs
CellIds == 1..MaxCells
\* nullptr
NULL == 0

(***************************************************************************)
(* C++ integer arithmetic and the kernel's primitives.                     *)
(***************************************************************************)
Abs(n) == IF n < 0 THEN -n ELSE n
Sign(n) == IF n < 0 THEN -1 ELSE 1

\* C++ integer division and remainder truncate toward zero.
CQuot(a, b) == Sign(a) * Sign(b) * (Abs(a) \div Abs(b))
CRem(a, b) == a - b * CQuot(a, b)

\* Floor division (the quotient rounds toward negative infinity).
FloorDiv(a, b) ==
    LET q == CQuot(a, b)
    IN IF CRem(a, b) # 0 /\ ((a < 0) # (b < 0)) THEN q - 1 ELSE q

DigitChars == <<"0", "1", "2", "3", "4", "5", "6", "7", "8", "9">>

\* The character code of a character of a numeral.
CharCode(c) ==
    CASE c = "-" -> 45
      [] c = "+" -> 43
      [] OTHER -> 47 + (CHOOSE i \in 1..10 : DigitChars[i] = c)

RECURSIVE Digits(_)
Digits(n) ==
    IF n < 10 THEN <<DigitChars[n + 1]>>
    ELSE Digits(n \div 10) \o <<DigitChars[(n % 10) + 1]>>

\* BigInt::to_string: the canonical decimal form.
to_string(b) == IF b < 0 THEN <<"-">> \o Digits(-b) ELSE Digits(b)

\* String::length and String::last_char
length(s) == Len(s)
last_char(s) == s[Len(s)]

RECURSIVE ParseDigits(_)
ParseDigits(s) ==
    IF Len(s) = 0 THEN 0
    ELSE 10 * ParseDigits(SubSeq(s, 1, Len(s) - 1)) + (CharCode(s[Len(s)]) - CharCode("0"))

\* BigInt(const String &): parses a decimal numeral.
BigIntFromString(s) ==
    IF Len(s) > 0 /\ s[1] = "-" THEN -ParseDigits(Tail(s))
    ELSE IF Len(s) > 0 /\ s[1] = "+" THEN ParseDigits(Tail(s))
    ELSE ParseDigits(s)

\* A double is modelled in tenths: 159 stands for 15.9.
\* BigInt(const double &): truncates toward zero.
BigIntFromDouble(t) == CQuot(t, 10)

(***************************************************************************)
(* Inputs of the program body.                                             *)
(***************************************************************************)
\* The values around the boundaries of the word range, and around zero.
Vals == {MIN_INT - 1, MIN_INT, -1, 0, MAX_INT, MAX_INT + 1}
Numerals == {to_string(v) : v \in Vals}
Doubles == {10 * MIN_INT - 15, -5, 10 * MAX_INT + 9, 10 * (MAX_INT + 1)}
\* The values the program body assigns to a BigInt of its own.
MutateVals == {1, MAX_INT + 2}
\* Right-hand operands of the Compact representation.
CompactArgs == {-1, 0, 1}

(***************************************************************************)
(* BignumObject's inline methods, over the value of *m_bigint.             *)
(***************************************************************************)
is_odd_FirstChar(b) ==
    IF length(to_string(b)) # 0
    THEN CRem(CharCode(to_string(b)[1]) - CharCode("0"), 2) # 0
    ELSE TRUE

\* bool is_odd() override
is_odd(b) ==
    IF length(to_string(b)) # 0
    THEN LET last_digit == CharCode(last_char(to_string(b))) - CharCode("0")
         IN CRem(last_digit, 2) # 0
    ELSE TRUE

has_to_be_bignum_Inclusive(b) == b >= MAX_INT \/ b <= MIN_INT
has_to_be_bignum_AboveOnly(b) == b > MAX_INT

\* bool has_to_be_bignum() const
has_to_be_bignum(b) == b > MAX_INT \/ b < MIN_INT

\* IntegerObject::is_odd of the Compact representation: m_integer % 2 != 0
CompactIsOdd(n) == CRem(n, 2) # 0


(***************************************************************************)
(* The state.                                                              *)
(***************************************************************************)
VARIABLES
    \* build flags
    NAT_GC_DISABLE, NAT_GC_COLLECT_ALL_AT_EXIT,
    \* main, _main, EVAL
    pc,                  \* the statement the main thread is at
    start_of_stack,      \* Heap::the().start_of_stack()
    collect_all_at_exit, \* Heap::the().collect_all_at_exit()
    env,                 \* whether the top-level environment is built
    main_fiber,          \* built: whether built;  start: its start of stack
    gc_enabled,          \* the heap's collection switch
    gc_ran,              \* whether a collection pass has run
    ARGV,                \* the ARGV array
    run_exit_handlers,   \* EVAL's volatile flag
    exception,           \* the exception thrown to the top level, where it was thrown
    handler_calls,       \* the calls of handle_top_level_exception
    at_exit_starts,      \* how many times the at-exit handlers were started
    eval_result,         \* what EVAL returned
    return_code,
    exit_calls,          \* the calls of clean_up_and_exit
    \* the heap of the program body
    obj,                 \* BignumObject slots: state, m_bigint, the value constructed from
    roots,               \* the objects the program body refers to
    kcell,               \* BigInt cells: allocated, val, releases
    held,                \* the cell of the program body's own BigInt, when it has one
    sweeping,            \* the object the collector is reclaiming
    ret                  \* what the last BignumObject operation returned

mainVars == <<pc, start_of_stack, collect_all_at_exit, env, main_fiber, gc_enabled,
              ARGV, run_exit_handlers, exception, handler_calls, at_exit_starts,
              eval_result, return_code, exit_calls>>
flagVars == <<NAT_GC_DISABLE, NAT_GC_COLLECT_ALL_AT_EXIT>>
heapVars == <<obj, roots, kcell, held, sweeping, ret>>
vars == <<flagVars, mainVars, gc_ran, heapVars>>

\* &argv, the address main records as the start of the stack
ArgvAddr == 1
\* The command line of the run: argv[0], argv[1]
argv == <<"exe", "arg1">>
argc == Len(argv)

\* The stack slot of the program body's own BigInt variable.
BodyCell == MaxCells + 1
\* The stack slot expression temporaries of type BigInt live in.
TempCell == MaxCells + 2

NoCell == [allocated |-> FALSE, val |-> 0, releases |-> 0]
NoObj == [state |-> "unalloc", m_bigint |-> NULL, made_from |-> 0]
NoRet == [op |-> "none", obj |-> 0, arg |-> 0, rhs |-> 0, rep |-> "none",
          kind |-> "none", val |-> 0, b |-> FALSE]
NoException == [type |-> "none", from |-> "none"]

Init ==
    /\ NAT_GC_DISABLE \in BOOLEAN
    /\ NAT_GC_COLLECT_ALL_AT_EXIT \in BOOLEAN
    /\ pc = "main"
    /\ start_of_stack = NULL
    /\ collect_all_at_exit = FALSE
    /\ env = FALSE
    /\ main_fiber = [built |-> FALSE, start |-> NULL]
    /\ gc_enabled = FALSE
    /\ gc_ran = FALSE
    /\ ARGV = <<>>
    /\ run_exit_handlers = FALSE
    /\ exception = NoException
    /\ handler_calls = <<>>
    /\ at_exit_starts = 0
    /\ eval_result = "unset"
    /\ return_code = -1
    /\ exit_calls = <<>>
    /\ obj = [o \in ObjIds |-> NoObj]
    /\ roots = {}
    /\ kcell = [a \in 1..TempCell |-> NoCell]
    /\ held = {}
    /\ sweeping = 0
    /\ ret = NoRet

(***************************************************************************)
(* The kernel's storage.                                                   *)
(***************************************************************************)
IsLive(cells, a) == a # NULL /\ cells[a].allocated /\ cells[a].releases = 0
HasFreeCell(cells) == \E a \in CellIds : ~cells[a].allocated
FreshCell(cells) == CHOOSE a \in CellIds : ~cells[a].allocated /\ \A c \in 1..(a - 1) : cells[c].allocated

\* new BigInt(...) at address a
NewBigInt(cells, a, v) == [cells EXCEPT ![a] = [allocated |-> TRUE, val |-> v, releases |-> 0]]
\* delete of the BigInt at address a (what the released storage holds is not kept)
DeleteBigInt(cells, a) == [cells EXCEPT ![a].releases = @ + 1, ![a].val = 0]
\* the value of the BigInt at address a
Deref(cells, a) == cells[a].val

(***************************************************************************)
(* BignumObject's constructors, destructor and to_bigint.  Each yields the *)
(* object's m_bigint and the cells after it.                               *)
(***************************************************************************)
\* BignumObject(const String &num) : m_bigint(new BigInt(num))
BignumObject_String(cells, num) ==
    [m_bigint |-> FreshCell(cells),
     cells |-> NewBigInt(cells, FreshCell(cells), BigIntFromString(num))]

BignumObject_BigInt_Alias(cells, other) == [m_bigint |-> other, cells |-> cells]

\* BignumObject(const BigInt &other) : m_bigint(new BigInt(other))
BignumObject_BigInt(cells, other) ==
    [m_bigint |-> FreshCell(cells),
     cells |-> NewBigInt(cells, FreshCell(cells), Deref(cells, other))]

\* BignumObject(const double &num) : m_bigint(new BigInt(num))
BignumObject_double(cells, num) ==
    [m_bigint |-> FreshCell(cells),
     cells |-> NewBigInt(cells, FreshCell(cells), BigIntFromDouble(num))]

Destructor_NoDelete(cells, m_bigint) == cells

\* ~BignumObject() { if (m_bigint) delete m_bigint; }    (m_bigint is left as it is)
Destructor(cells, m_bigint) ==
    IF m_bigint # NULL THEN DeleteBigInt(cells, m_bigint) ELSE cells

to_bigint_Reference(cells, m_bigint, into) == [addr |-> m_bigint, cells |-> cells]

\* BigInt to_bigint() const { return *m_bigint; }   (a copy, into the caller's BigInt)
to_bigint(cells, m_bigint, into) ==
    [addr |-> into, cells |-> NewBigInt(cells, into, Deref(cells, m_bigint))]

(***************************************************************************)
(* main, _main and EVAL (src/main.cpp).  The main thread does not run      *)
(* while the collector is reclaiming an object.                            *)
(***************************************************************************)
Running(p) == pc = p /\ sweeping = 0

main_set_start_of_stack_Forgotten ==
    /\ Running("main")
    /\ pc' = "main_61"
    /\ UNCHANGED <<flagVars, start_of_stack, collect_all_at_exit, env, main_fiber,
                   gc_enabled, ARGV, run_exit_handlers, exception, handler_calls,
                   at_exit_starts, eval_result, return_code, exit_calls, gc_ran, heapVars>>

\* Heap::the().set_start_of_stack(&argv);
main_set_start_of_stack ==
    /\ Running("main")
    /\ start_of_stack' = ArgvAddr
    /\ pc' = "main_61"
    /\ UNCHANGED <<flagVars, collect_all_at_exit, env, main_fiber, gc_enabled, ARGV,
                   run_exit_handlers, exception, handler_calls, at_exit_starts,
                   eval_result, return_code, exit_calls, gc_ran, heapVars>>

\* #ifdef NAT_GC_COLLECT_ALL_AT_EXIT set_collect_all_at_exit(true); #endif  setvbuf(...)
main_set_collect_all_at_exit ==
    /\ Running("main_61")
    /\ collect_all_at_exit' = NAT_GC_COLLECT_ALL_AT_EXIT
    /\ pc' = "_main"
    /\ UNCHANGED <<flagVars, start_of_stack, env, main_fiber, gc_enabled, ARGV,
                   run_exit_handlers, exception, handler_calls, at_exit_starts,
                   eval_result, return_code, exit_calls, gc_ran, heapVars>>

\* Env *env = ::build_top_env();
main_build_top_env ==
    /\ Running("_main")
    /\ env' = TRUE
    /\ pc' = "_main_40"
    /\ UNCHANGED <<flagVars, start_of_stack, collect_all_at_exit, main_fiber, gc_enabled,
                   ARGV, run_exit_handlers, exception, handler_calls, at_exit_starts,
                   eval_result, return_code, exit_calls, gc_ran, heapVars>>

\* FiberObject::build_main_fiber(Heap::the().start_of_stack());
main_build_main_fiber ==
    /\ Running("_main_40")
    /\ main_fiber' = [built |-> TRUE, start |-> start_of_stack]
    /\ pc' = "_main_42"
    /\ UNCHANGED <<flagVars, start_of_stack, collect_all_at_exit, env, gc_enabled, ARGV,
                   run_exit_handlers, exception, handler_calls, at_exit_starts,
                   eval_result, return_code, exit_calls, gc_ran, heapVars>>

\* #ifndef NAT_GC_DISABLE Heap::the().gc_enable(); #endif
main_gc_enable ==
    /\ Running("_main_42")
    /\ gc_enabled' = IF NAT_GC_DISABLE THEN gc_enabled ELSE TRUE
    /\ pc' = "_main_46"
    /\ UNCHANGED <<flagVars, start_of_stack, collect_all_at_exit, env, main_fiber, ARGV,
                   run_exit_handlers, exception, handler_calls, at_exit_starts,
                   eval_result, return_code, exit_calls, gc_ran, heapVars>>

\* assert(argc > 0); $exe = argv[0]; ARGV = argv[1], ..., argv[argc - 1]
main_set_ARGV ==
    /\ Running("_main_46")
    /\ argc > 0
    /\ ARGV' = [i \in 1..(argc - 1) |-> argv[i + 1]]
    /\ pc' = "EVAL"
    /\ UNCHANGED <<flagVars, start_of_stack, collect_all_at_exit, env, main_fiber,
                   gc_enabled, run_exit_handlers, exception, handler_calls,
                   at_exit_starts, eval_result, return_code, exit_calls, gc_ran, heapVars>>

\* EVAL: volatile bool run_exit_handlers = true; ... try {
EVAL_enter ==
    /\ Running("EVAL")
    /\ run_exit_handlers' = TRUE
    /\ pc' = "body"
    /\ UNCHANGED <<flagVars, start_of_stack, collect_all_at_exit, env, main_fiber,
                   gc_enabled, ARGV, exception, handler_calls, at_exit_starts,
                   eval_result, return_code, exit_calls, gc_ran, heapVars>>

\* NAT_EVAL_BODY runs to its end.
EVAL_body_done ==
    /\ Running("body")
    /\ pc' = "EVAL_29"
    /\ ret' = NoRet
    /\ UNCHANGED <<flagVars, start_of_stack, collect_all_at_exit, env, main_fiber,
                   gc_enabled, ARGV, run_exit_handlers, exception, handler_calls,
                   at_exit_starts, eval_result, return_code, exit_calls, gc_ran,
                   obj, roots, kcell, held, sweeping>>

EVAL_clear_flag_Skipped ==
    /\ Running("EVAL_29")
    /\ pc' = "EVAL_30"
    /\ UNCHANGED <<flagVars, start_of_stack, collect_all_at_exit, env, main_fiber,
                   gc_enabled, ARGV, run_exit_handlers, exception, handler_calls,
                   at_exit_starts, eval_result, return_code, exit_calls, gc_ran, heapVars>>

\* run_exit_handlers = false;
EVAL_clear_flag ==
    /\ Running("EVAL_29")
    /\ run_exit_handlers' = FALSE
    /\ pc' = "EVAL_30"
    /\ UNCHANGED <<flagVars, start_of_stack, collect_all_at_exit, env, main_fiber,
                   gc_enabled, ARGV, exception, handler_calls, at_exit_starts,
                   eval_result, return_code, exit_calls, gc_ran, heapVars>>

\* run_at_exit_handlers(env);   (a handler may raise)
EVAL_run_at_exit_handlers ==
    /\ Running("EVAL_30")
    /\ at_exit_starts' = at_exit_starts + 1
    /\ \/ pc' = "EVAL_31" /\ UNCHANGED exception
       \/ pc' = "catch" /\ exception' = [type |-> "RuntimeError", from |-> "at_exit"]
    /\ UNCHANGED <<flagVars, start_of_stack, collect_all_at_exit, env, main_fiber,
                   gc_enabled, ARGV, run_exit_handlers, handler_calls,
                   eval_result, return_code, exit_calls, gc_ran, heapVars>>

\* return NilObject::the();
EVAL_return_nil ==
    /\ Running("EVAL_31")
    /\ eval_result' = "NilObject"
    /\ pc' = "main_65"
    /\ UNCHANGED <<flagVars, start_of_stack, collect_all_at_exit, env, main_fiber,
                   gc_enabled, ARGV, run_exit_handlers, exception, handler_calls,
                   at_exit_starts, return_code, exit_calls, gc_ran, heapVars>>

\* handle_top_level_exception(env, exception, run_exit_handlers): reports the exception;
\* it may start the at-exit handlers only when told that they have not run.
handle_top_level_exception(e, flag) ==
    /\ handler_calls' = Append(handler_calls, [exception |-> e, run_exit_handlers |-> flag])
    /\ \E runs \in (IF flag THEN BOOLEAN ELSE {FALSE}) :
          at_exit_starts' = at_exit_starts + (IF runs THEN 1 ELSE 0)

EVAL_catch_ReturnsNil ==
    /\ Running("catch")
    /\ handle_top_level_exception(exception.type, run_exit_handlers)
    /\ eval_result' = "NilObject"
    /\ pc' = "main_65"
    /\ UNCHANGED <<flagVars, start_of_stack, collect_all_at_exit, env, main_fiber,
                   gc_enabled, ARGV, run_exit_handlers, exception,
                   return_code, exit_calls, gc_ran, heapVars>>

\* } catch (ExceptionObject *exception) { handle_top_level_exception(...); return nullptr; }
EVAL_catch ==
    /\ Running("catch")
    /\ handle_top_level_exception(exception.type, run_exit_handlers)
    /\ eval_result' = "nullptr"
    /\ pc' = "main_65"
    /\ UNCHANGED <<flagVars, start_of_stack, collect_all_at_exit, env, main_fiber,
                   gc_enabled, ARGV, run_exit_handlers, exception,
                   return_code, exit_calls, gc_ran, heapVars>>

\* auto return_code = _main(argc, argv) ? 0 : 1;  clean_up_and_exit(return_code);
main_clean_up_and_exit ==
    /\ Running("main_65")
    /\ return_code' = (IF eval_result # "nullptr" THEN 0 ELSE 1)
    /\ exit_calls' = Append(exit_calls, return_code')
    /\ pc' = "exited"
    /\ UNCHANGED <<flagVars, start_of_stack, collect_all_at_exit, env, main_fiber,
                   gc_enabled, ARGV, run_exit_handlers, exception, handler_calls,
                   at_exit_starts, eval_result, gc_ran, heapVars>>

(***************************************************************************)
(* The program body: a client of BignumObject.                             *)
(***************************************************************************)
InBody == Running("body")
bodyFrame == UNCHANGED <<flagVars, mainVars, gc_ran>>

HasFreeObj == \E o \in ObjIds : obj[o].state = "unalloc"
\* The program body constructs at most MaxBuilt objects itself.
CanBuild == HasFreeObj /\ Cardinality({o \in ObjIds : obj[o].state # "unalloc"}) < MaxBuilt
FreshObj == CHOOSE o \in ObjIds : obj[o].state = "unalloc" /\ \A q \in 1..(o - 1) : obj[q].state # "unalloc"
\* The objects the program body can use: referred to, and not reclaimed.
Usable == {o \in roots : obj[o].state = "live"}
\* *m_bigint of object o
Val(o) == Deref(kcell, obj[o].m_bigint)
\* nat_int_t holds WordBits bits: a value out of range wraps.
to_nat_int_t(v) == ((v - NAT_INT_MIN) % Pow2(WordBits)) + NAT_INT_MIN

\* new BignumObject { String }
NewFromString(num) ==
    /\ InBody /\ CanBuild /\ HasFreeCell(kcell)
    /\ LET c == BignumObject_String(kcell, num)
       IN /\ obj' = [obj EXCEPT ![FreshObj] = [state |-> "live", m_bigint |-> c.m_bigint,
                                              made_from |-> BigIntFromString(num)]]
          /\ kcell' = c.cells
    /\ roots' = roots \cup {FreshObj}
    /\ ret' = NoRet
    /\ UNCHANGED <<held, sweeping>>
    /\ bodyFrame

\* new BignumObject { double }
NewFromDouble(num) ==
    /\ InBody /\ CanBuild /\ HasFreeCell(kcell)
    /\ LET c == BignumObject_double(kcell, num)
       IN /\ obj' = [obj EXCEPT ![FreshObj] = [state |-> "live", m_bigint |-> c.m_bigint,
                                              made_from |-> BigIntFromDouble(num)]]
          /\ kcell' = c.cells
    /\ roots' = roots \cup {FreshObj}
    /\ ret' = NoRet
    /\ UNCHANGED <<held, sweeping>>
    /\ bodyFrame

\* new BignumObject { b } for a BigInt b the program body holds
NewFromBigInt(a) ==
    /\ InBody /\ CanBuild /\ HasFreeCell(kcell)
    /\ a \in held
    /\ LET c == BignumObject_BigInt(kcell, a)
       IN /\ obj' = [obj EXCEPT ![FreshObj] = [state |-> "live", m_bigint |-> c.m_bigint,
                                              made_from |-> Deref(kcell, a)]]
          /\ kcell' = c.cells
    /\ roots' = roots \cup {FreshObj}
    /\ ret' = NoRet
    /\ UNCHANGED <<held, sweeping>>
    /\ bodyFrame

\* BigInt b = o->to_bigint();
ToBigint(o) ==
    /\ InBody /\ o \in Usable
    /\ held = {}
    /\ LET r == to_bigint(kcell, obj[o].m_bigint, BodyCell)
       IN /\ kcell' = r.cells
          /\ held' = held \cup {r.addr}
          /\ ret' = [NoRet EXCEPT !.op = "to_bigint", !.obj = o, !.arg = Val(o),
                                  !.kind = "bigint", !.val = Deref(r.cells, r.addr)]
    /\ UNCHANGED <<obj, roots, sweeping>>
    /\ bodyFrame

\* The program body assigns to a BigInt it holds.
MutateBigInt(a, v) ==
    /\ InBody /\ a \in held /\ kcell[a].val # v
    /\ kcell' = [kcell EXCEPT ![a].val = v]
    /\ ret' = NoRet
    /\ UNCHANGED <<obj, roots, held, sweeping>>
    /\ bodyFrame

\* A BigInt the program body holds goes out of scope.
ReleaseBigInt(a) ==
    /\ InBody /\ a \in held
    /\ kcell' = DeleteBigInt(kcell, a)
    /\ held' = held \ {a}
    /\ ret' = NoRet
    /\ UNCHANGED <<obj, roots, sweeping>>
    /\ bodyFrame

\* o->is_odd()
IsOdd(o) ==
    /\ InBody /\ o \in Usable
    /\ ret' = [NoRet EXCEPT !.op = "is_odd", !.obj = o, !.arg = Val(o),
                            !.kind = "bool", !.b = is_odd(Val(o))]
    /\ UNCHANGED <<obj, roots, kcell, held, sweeping>>
    /\ bodyFrame

\* o->has_to_be_bignum()
HasToBeBignum(o) ==
    /\ InBody /\ o \in Usable
    /\ ret' = [NoRet EXCEPT !.op = "has_to_be_bignum", !.obj = o, !.arg = Val(o),
                            !.kind = "bool", !.b = has_to_be_bignum(Val(o))]
    /\ UNCHANGED <<obj, roots, kcell, held, sweeping>>
    /\ bodyFrame

\* The program body drops its reference to an object.
DropRef(o) ==
    /\ InBody /\ o \in roots
    /\ roots' = roots \ {o}
    /\ ret' = NoRet
    /\ UNCHANGED <<obj, kcell, held, sweeping>>
    /\ bodyFrame

\* new BignumObject { <a temporary BigInt of value v> }: the object, and the cells after
\* the temporary is gone.
NewFromTemporary(v) ==
    LET c == BignumObject_BigInt(NewBigInt(kcell, TempCell, v), TempCell)
    IN [m_bigint |-> c.m_bigint, cells |-> [c.cells EXCEPT ![TempCell] = NoCell]]

\* new BignumObject { o->to_bigint() }: a copy of an object
Copy(o) ==
    /\ InBody /\ o \in Usable /\ CanBuild /\ HasFreeCell(kcell)
    /\ LET t == to_bigint(kcell, obj[o].m_bigint, TempCell)
           c == BignumObject_BigInt(t.cells, t.addr)
       IN /\ obj' = [obj EXCEPT ![FreshObj] = [state |-> "live", m_bigint |-> c.m_bigint,
                                              made_from |-> Val(o)]]
          /\ kcell' = [c.cells EXCEPT ![TempCell] = NoCell]
    /\ roots' = roots \cup {FreshObj}
    /\ ret' = [NoRet EXCEPT !.op = "copy", !.obj = FreshObj, !.arg = Val(o), !.rhs = o,
                            !.kind = "extended"]
    /\ UNCHANGED <<held, sweeping>>
    /\ bodyFrame

(***************************************************************************)
(* Arithmetic on an Extended value (BignumObject::add, sub, mul, div and   *)
(* negate): the kernel computes the exact result, a new BignumObject wraps *)
(* it, and has_to_be_bignum decides the representation returned.           *)
(***************************************************************************)
BinaryOps == {"add", "sub", "mul", "div"}

KernelOp(op, a, b) ==
    CASE op = "add" -> a + b
      [] op = "sub" -> a - b
      [] op = "mul" -> a * b
      [] op = "div" -> FloorDiv(a, b)
      [] op = "negate" -> -a

\* Operands are taken from the values around the boundaries of the word range.
Operand(v) == v \in Vals
\* The right-hand operands at hand: Compact values, and the usable Extended objects.
Rhs == {[rep |-> "compact", val |-> v] : v \in CompactArgs}
          \cup {[rep |-> "extended", val |-> Val(q)] : q \in Usable}

\* auto result = new BignumObject { <kernel result> };
\* if (result->has_to_be_bignum()) return result; return Value::integer(result->to_nat_int_t());
Demote(op, a, r) ==
    /\ HasFreeObj /\ HasFreeCell(kcell)
    /\ LET c == NewFromTemporary(KernelOp(op, a, r.val))
           v == Deref(c.cells, c.m_bigint)
       IN /\ obj' = [obj EXCEPT ![FreshObj] = [state |-> "live", m_bigint |-> c.m_bigint,
                                              made_from |-> KernelOp(op, a, r.val)]]
          /\ kcell' = c.cells
          /\ IF has_to_be_bignum(v)
             THEN /\ roots' = roots \cup {FreshObj}
                  /\ ret' = [NoRet EXCEPT !.op = op, !.obj = FreshObj, !.arg = a, !.rhs = r.val,
                                          !.rep = r.rep, !.kind = "extended"]
             ELSE /\ roots' = roots
                  /\ ret' = [NoRet EXCEPT !.op = op, !.arg = a, !.rhs = r.val, !.rep = r.rep,
                                          !.kind = "compact", !.val = to_nat_int_t(v)]
    /\ UNCHANGED <<held, sweeping>>
    /\ bodyFrame

\* o->add(env, r), o->sub(env, r), o->mul(env, r), o->div(env, r) with r not zero
Arith(op, o, r) ==
    /\ InBody /\ o \in Usable /\ Operand(Val(o)) /\ Operand(r.val)
    /\ ~(op = "div" /\ r.val = 0)
    /\ Demote(op, Val(o), r)

\* o->negate(env)
Negate(o) ==
    /\ InBody /\ o \in Usable /\ Operand(Val(o))
    /\ Demote("negate", Val(o), [rep |-> "none", val |-> 0])

\* o->div(env, r) with r zero: raises ZeroDivisionError
DivByZero(o, r) ==
    /\ InBody /\ o \in Usable /\ r.val = 0
    /\ exception' = [type |-> "ZeroDivisionError", from |-> "body"]
    /\ pc' = "catch"
    /\ ret' = NoRet
    /\ UNCHANGED <<flagVars, start_of_stack, collect_all_at_exit, env, main_fiber,
                   gc_enabled, ARGV, run_exit_handlers, handler_calls, at_exit_starts,
                   eval_result, return_code, exit_calls, gc_ran,
                   obj, roots, kcell, held, sweeping>>

(***************************************************************************)
(* The collector: a pass may run at any allocation once collection is      *)
(* enabled; it reclaims unreachable objects, one at a time: the destructor *)
(* runs, then the object's storage is released.                            *)
(***************************************************************************)
CanCollect == gc_enabled /\ sweeping = 0 /\ pc # "exited"

\* A pass that finds nothing to reclaim.
GcPass ==
    /\ CanCollect /\ ~gc_ran
    /\ gc_ran' = TRUE
    /\ UNCHANGED <<flagVars, mainVars, heapVars>>

\* The collector runs ~BignumObject() on an unreachable object.
GcDestruct(o) ==
    /\ CanCollect
    /\ obj[o].state = "live" /\ o \notin roots
    /\ kcell' = Destructor(kcell, obj[o].m_bigint)
    /\ obj' = [obj EXCEPT ![o].state = "destructed"]
    /\ sweeping' = o
    /\ gc_ran' = TRUE
    /\ UNCHANGED <<flagVars, mainVars, roots, held, ret>>

\* The collector releases the storage of the object whose destructor has run.
GcFree ==
    /\ sweeping # 0
    /\ obj' = [obj EXCEPT ![sweeping].state = "freed", ![sweeping].made_from = 0]
    /\ sweeping' = 0
    /\ UNCHANGED <<flagVars, mainVars, gc_ran, roots, kcell, held, ret>>

\* The destructor is invoked once more on an object it has already run on.
DestructAgain ==
    /\ sweeping # 0
    /\ kcell[obj[sweeping].m_bigint].releases < 2
    /\ kcell' = Destructor(kcell, obj[sweeping].m_bigint)
    /\ UNCHANGED <<flagVars, mainVars, gc_ran, obj, roots, held, sweeping, ret>>

(***************************************************************************)
(* The specifications.                                                     *)
(***************************************************************************)
MainStep ==
    \/ main_set_start_of_stack
    \/ main_set_collect_all_at_exit
    \/ main_build_top_env
    \/ main_build_main_fiber
    \/ main_gc_enable
    \/ main_set_ARGV
    \/ EVAL_enter
    \/ EVAL_clear_flag
    \/ EVAL_run_at_exit_handlers
    \/ EVAL_return_nil
    \/ EVAL_catch
    \/ main_clean_up_and_exit

\* What a program body does with the objects' lifecycle and ownership.
BodyStep ==
    \/ \E num \in Numerals : NewFromString(num)
    \/ \E num \in Doubles : NewFromDouble(num)
    \/ \E a \in 1..BodyCell : NewFromBigInt(a)
    \/ \E o \in ObjIds : ToBigint(o)
    \/ \E a \in 1..BodyCell, v \in MutateVals : MutateBigInt(a, v)
    \/ \E a \in 1..BodyCell : ReleaseBigInt(a)
    \/ \E o \in ObjIds : IsOdd(o)
    \/ \E o \in ObjIds : HasToBeBignum(o)
    \/ \E o \in ObjIds : DropRef(o)
    \/ \E o \in ObjIds : Copy(o)
    \/ EVAL_body_done

\* What a program body does with arithmetic.
ArithStep ==
    \/ \E num \in Numerals : NewFromString(num)
    \/ \E op \in BinaryOps, o \in ObjIds : \E r \in Rhs : Arith(op, o, r)
    \/ \E o \in ObjIds : Negate(o)
    \/ \E o \in ObjIds : \E r \in Rhs : DivByZero(o, r)
    \/ \E o \in ObjIds : IsOdd(o)
    \/ \E o \in ObjIds : HasToBeBignum(o)
    \/ EVAL_body_done

GcStep ==
    \/ GcPass
    \/ \E o \in ObjIds : GcDestruct(o)
    \/ GcFree

Next == MainStep \/ BodyStep \/ GcStep

\* A program whose body constructs, copies, queries and drops objects.
Spec == Init /\ [][Next]_vars

\* The same program, where a destructor may be invoked again.
SpecDestructAgain == Init /\ [][Next \/ DestructAgain]_vars

\* A program built with NAT_GC_DISABLE whose body does arithmetic.
InitArith == Init /\ NAT_GC_DISABLE
NextArith == MainStep \/ ArithStep
SpecArith == InitArith /\ [][NextArith]_vars

\* The main thread runs on: a statement of main, _main or EVAL that can run does run.
\* (Nothing makes the program body end.)
SpecArithFair == SpecArith /\ WF_vars(MainStep)

(***************************************************************************)
(* The properties.                                                         *)
(***************************************************************************)
InWord(v) == NAT_INT_MIN <= v /\ v <= NAT_INT_MAX
Live(o) == obj[o].state = "live"

\* C1: has_to_be_bignum() on an object returns true if and only if the object's kernel
\* value is strictly greater than NAT_INT_MAX or strictly less than NAT_INT_MIN; it
\* returns false at both ends of the word range and in between.
C1_HasToBeBignumIffOutside ==
    ret.op = "has_to_be_bignum" =>
        /\ ret.arg = Val(ret.obj)
        /\ ret.b <=> (ret.arg > NAT_INT_MAX \/ ret.arg < NAT_INT_MIN)
        /\ ret.arg \in {NAT_INT_MAX, NAT_INT_MIN} => ~ret.b

\* has_to_be_bignum() has answered false for an object holding exactly NAT_INT_MAX.
C1_Witness == ret.op = "has_to_be_bignum" /\ ret.arg = NAT_INT_MAX /\ ~ret.b

\* C2: is_odd() on an object holding n answers the mathematical parity of n, whatever
\* the sign of n and whether or not n fits a word, and so agrees with the Compact
\* representation's is_odd where n fits a word.
C2_IsOddIsParity ==
    ret.op = "is_odd" =>
        /\ ret.arg = Val(ret.obj)
        /\ ret.b <=> (ret.arg % 2 = 1)
        /\ InWord(ret.arg) => (ret.b <=> CompactIsOdd(ret.arg))

\* is_odd() has answered true for a negative odd value of several digits below the word range.
C2_Witness == ret.op = "is_odd" /\ ret.arg < NAT_INT_MIN /\ ret.arg < -9 /\ ret.b


\* C3: an object constructed from a BigInt holds a BigInt of its own: whatever is done
\* later to the BigInt it was constructed from (assignment, release), and to a BigInt
\* that to_bigint() returned, a live object's kernel value stays allocated and equal to
\* the value it was constructed from, and that is the value to_bigint, is_odd and
\* has_to_be_bignum see.
C3_ValueIndependentOfSource ==
    /\ \A o \in ObjIds : Live(o) =>
          /\ IsLive(kcell, obj[o].m_bigint)
          /\ Val(o) = obj[o].made_from
    /\ ret.op = "to_bigint" => ret.val = obj[ret.obj].made_from
    /\ ret.op = "is_odd" => (ret.b <=> is_odd(obj[ret.obj].made_from))
    /\ ret.op = "has_to_be_bignum" => (ret.b <=> has_to_be_bignum(obj[ret.obj].made_from))

\* In this specification only an object constructed from the program body's BigInt can
\* hold one of MutateVals.  Such an object is live and still holds that value, while the
\* BigInt it was constructed from has been assigned another value or been released.
C3_Witness ==
    \E o \in ObjIds :
        /\ Live(o)
        /\ obj[o].made_from \in MutateVals
        /\ Val(o) = obj[o].made_from
        /\ kcell[BodyCell].allocated
        /\ kcell[BodyCell].releases > 0 \/ kcell[BodyCell].val # obj[o].made_from

C5_NeverReleasedTwice == \A a \in 1..TempCell : kcell[a].releases <= 1

Constructed == {o \in ObjIds : obj[o].state # "unalloc"}
Reclaimed == {o \in ObjIds : obj[o].state \in {"destructed", "freed"}}

\* What holds of the objects and the heap's BigInt cells in every state.
C6_Lifecycle ==
    \* one BigInt is allocated for each object constructed
    /\ Cardinality({a \in CellIds : kcell[a].allocated}) = Cardinality(Constructed)
    /\ \A o \in Constructed : obj[o].m_bigint \in CellIds /\ kcell[obj[o].m_bigint].allocated
    \* no live object refers to a released BigInt
    /\ \A o \in ObjIds : Live(o) => IsLive(kcell, obj[o].m_bigint)
    \* the BigInt of an object whose destructor has run is released, once
    /\ \A o \in Reclaimed : kcell[obj[o].m_bigint].releases = 1
    \* no BigInt stays allocated without a live object
    /\ \A a \in CellIds : IsLive(kcell, a) => \E o \in ObjIds : Live(o) /\ obj[o].m_bigint = a

\* A step that constructs an object allocates exactly one BigInt in the heap, and the
\* storage of an object is released only after its destructor has released its BigInt.
C6_Step ==
    /\ \A o \in ObjIds :
          obj[o].state = "unalloc" /\ obj'[o].state # "unalloc" =>
              /\ obj'[o].state = "live"
              /\ Cardinality({a \in CellIds : kcell'[a].allocated})
                    = Cardinality({a \in CellIds : kcell[a].allocated}) + 1
    /\ \A o \in ObjIds :
          obj[o].state # "freed" /\ obj'[o].state = "freed" =>
              /\ obj[o].state = "destructed"
              /\ kcell[obj[o].m_bigint].releases = 1

\* C6: each constructor allocates exactly one BigInt; the collector releases an
\* object's BigInt before the object's storage; no BigInt of a reclaimed object stays
\* allocated and no live object refers to a released BigInt.
C6_OneKernelValuePerObject == []C6_Lifecycle /\ [][C6_Step]_vars

\* The collector has reclaimed one object (its BigInt released once, its storage
\* released) while another object is live.
C6_Witness ==
    \E o, q \in ObjIds :
        /\ obj[o].state = "freed" /\ kcell[obj[o].m_bigint].releases = 1
        /\ Live(q)

\* C7: add, sub, mul, div (with a Compact or an Extended right-hand operand) and negate
\* return a Compact value if and only if the exact result lies in
\* [NAT_INT_MIN, NAT_INT_MAX], and then that value; otherwise they return a new
\* Extended object holding the exact result.  The operands' representations play no part.
C7_CompactIffFits ==
    ret.op \in BinaryOps \cup {"negate"} =>
        LET exact == KernelOp(ret.op, ret.arg, ret.rhs)
        IN /\ ret.kind \in {"compact", "extended"}
           /\ ret.kind = "compact" <=> InWord(exact)
           /\ ret.kind = "compact" => ret.val = exact
           /\ ret.kind = "extended" =>
                 /\ Live(ret.obj) /\ ret.obj \in roots
                 /\ Val(ret.obj) = exact
                 /\ has_to_be_bignum(Val(ret.obj))

\* An Extended value out of the word range plus an Extended value has given a Compact
\* value: NAT_INT_MAX itself.
C7_Witness ==
    /\ ret.op = "add" /\ ret.rep = "extended" /\ ret.arg > NAT_INT_MAX
    /\ ret.kind = "compact" /\ ret.val = NAT_INT_MAX

Returned == pc \in {"main_65", "exited"}

\* What holds of the top-level handler, EVAL's result and the exit status in every state.
C8_ExitStatus ==
    /\ Len(handler_calls) <= 1 /\ Len(exit_calls) <= 1
    /\ pc = "exited" <=> Len(exit_calls) = 1
    /\ Returned /\ exception.type # "none" =>
          /\ Len(handler_calls) = 1 /\ handler_calls[1].exception = exception.type
          /\ eval_result = "nullptr"
          /\ pc = "exited" => exit_calls = <<1>>
    /\ Returned /\ exception.type = "none" =>
          /\ handler_calls = <<>>
          /\ eval_result = "NilObject"
          /\ pc = "exited" => exit_calls = <<0>>

\* C8: an exception that leaves the program body reaches handle_top_level_exception
\* exactly once, EVAL returns null and the process exits through clean_up_and_exit(1);
\* with no exception EVAL returns a non-null value and the exit is clean_up_and_exit(0).
\* Either way, once the program body has ended, clean_up_and_exit is eventually called,
\* exactly once.
C8_HandledOnceAndExit ==
    /\ []C8_ExitStatus
    /\ (pc \in {"EVAL_29", "catch"}) ~> (pc = "exited")

\* A division by zero in the program body has ended the process with status 1.
C8_Witness ==
    /\ pc = "exited" /\ exception = [type |-> "ZeroDivisionError", from |-> "body"]
    /\ exit_calls = <<1>> /\ Len(handler_calls) = 1

\* C9: the at-exit handlers are started at most once.  The top-level handler is called
\* with run_exit_handlers = true exactly when the exception was raised in the program
\* body (the handlers have not run then); run_exit_handlers is false when
\* run_at_exit_handlers is called, so an exception raised by an at-exit handler reaches
\* the top-level handler with run_exit_handlers = false.
C9_ExitHandlersOnce ==
    /\ at_exit_starts <= 1
    /\ \A i \in 1..Len(handler_calls) :
          handler_calls[i].run_exit_handlers <=> exception.from = "body"
    /\ pc \in {"EVAL_30", "EVAL_31"} => ~run_exit_handlers
    /\ exception.from = "at_exit" => ~run_exit_handlers /\ at_exit_starts = 1
    /\ pc = "catch" /\ exception.from = "body" => run_exit_handlers /\ at_exit_starts = 0

\* An at-exit handler has raised, and the top-level handler has been called with
\* run_exit_handlers = false: the handlers were started once.
C9_Witness ==
    /\ exception.from = "at_exit" /\ Len(handler_calls) = 1
    /\ ~handler_calls[1].run_exit_handlers /\ at_exit_starts = 1

Started == main_fiber.built /\ main_fiber.start = ArgvAddr /\ env /\ start_of_stack = ArgvAddr

\* C10: the start of the stack is recorded before anything else; then the top-level
\* environment is built, then the main fiber, with the recorded start of the stack;
\* collection is enabled only after that, and never under NAT_GC_DISABLE; so no
\* collection pass runs before the start of the stack is set and the main fiber exists,
\* and the program body runs only after all of these steps.
C10_StartupOrder ==
    /\ pc # "main" => start_of_stack = ArgvAddr
    /\ collect_all_at_exit \/ env \/ main_fiber.built \/ gc_enabled => start_of_stack = ArgvAddr
    /\ main_fiber.built => env /\ main_fiber.start = ArgvAddr
    /\ gc_enabled => Started /\ ~NAT_GC_DISABLE
    /\ gc_ran => gc_enabled /\ Started
    /\ pc \notin {"main", "main_61", "_main", "_main_40", "_main_42", "_main_46"} =>
          Started /\ (gc_enabled <=> ~NAT_GC_DISABLE)
    /\ Constructed # {} \/ ret # NoRet => Started

\* A collection pass has run before EVAL is entered, after the main fiber was built.
C10_Witness == gc_ran /\ pc = "_main_46" /\ Started

=============================================================================
